---- MODULE Spec2Model ----
(***************************************************************************)
(* Rizzo (rizzo.py): signature generation over a disassembly database,    *)
(* matching of two signature stores and the renamer.                      *)
(*                                                                         *)
(* Text (str) is a sequence of one-character strings, so that ''.join,    *)
(* str.startswith, str.split and the string hash are computed, not        *)
(* assumed.  A dict is a sequence of <<key, value>> pairs in insertion    *)
(* order, which is the order Python iterates it in.                       *)
(***************************************************************************)
EXTENDS Integers, Sequences, FiniteSets, TLC

(* ------------------------------ bounds -------------------------------- *)
NumFuncs == 3
MaxCalls == 2

(* ------------------------- program constants -------------------------- *)
\* sighash masks hash() with 0xFFFFFFFF; the mask is scaled to 16 bits to
\* stay inside TLC's integers.
HashBits == 16
\* len(idaapi.insn_t().ops)
UA_MAXOP == 8
o_void == 0
o_imm == 5
FFFF == 65535
MinStrLen == 8
BADADDR == -1

(* ------------------------------- text --------------------------------- *)
Digits == <<"0", "1", "2", "3", "4", "5", "6", "7", "8", "9">>
Lower == <<"a", "b", "c", "d", "e", "f", "g", "h", "i", "j", "k", "l", "m",
           "n", "o", "p", "q", "r", "s", "t", "u", "v", "w", "x", "y", "z">>

Range(s) == {s[i] : i \in 1..Len(s)}

IndexOf(s, c) == CHOOSE i \in 1..Len(s) : s[i] = c

Upper == <<"A", "B", "C", "D", "E", "F">>
HexDigits == Digits \o Upper

\* ord(c) for the characters that occur
Ord(c) ==
  IF c \in Range(Digits) THEN 47 + IndexOf(Digits, c)
  ELSE IF c \in Range(Lower) THEN 96 + IndexOf(Lower, c)
  ELSE IF c \in Range(Upper) THEN 64 + IndexOf(Upper, c)
  ELSE 95

RECURSIVE DecStr(_)
\* str(n) of a non-negative int
DecStr(n) == IF n < 10 THEN <<Digits[n + 1]>>
             ELSE DecStr(n \div 10) \o <<Digits[(n % 10) + 1]>>

RECURSIVE HexStr(_)
\* '%X' % n
HexStr(n) == IF n < 16 THEN <<HexDigits[n + 1]>>
             ELSE HexStr(n \div 16) \o <<HexDigits[(n % 16) + 1]>>

RECURSIVE Join(_)
\* ''.join(tokens)
Join(tokens) == IF tokens = <<>> THEN <<>> ELSE Head(tokens) \o Join(Tail(tokens))

\* str.startswith
StartsWith(s, p) == Len(s) >= Len(p) /\ SubSeq(s, 1, Len(p)) = p

RECURSIVE SplitHead(_)
\* name.split('_')[0]: the text before the first '_'
SplitHead(s) == IF s = <<>> \/ Head(s) = "_" THEN <<>>
                ELSE <<Head(s)>> \o SplitHead(Tail(s))

(* ------------------------------- hash --------------------------------- *)
PyHashMod == 2 ^ 20
PyHashMult == 31

RECURSIVE PyHashFrom(_, _)
PyHashFrom(h, text) ==
  IF text = <<>> THEN h
  ELSE PyHashFrom((h * PyHashMult + Ord(Head(text))) % PyHashMod, Tail(text))

\* hash(s) of a str: a keyed hash whose key is drawn once per interpreter
\* process (PYTHONHASHSEED); the same process hashes equal text equally.
\* The empty str hashes to 0 under every key.
PyHash(seed, text) == IF text = <<>> THEN 0 ELSE PyHashFrom(seed, text)

\* Rizzo.sighash in the process keyed by seed
sighash(seed, value) == PyHash(seed, value) % (2 ^ HashBits)

(* ---------------------- the disassembly database ---------------------- *)
\* An instruction as the analysis backend reports it: its mnemonic, whether it
\* is a call, its code and data references, the text of operand n
\* (idc.print_operand, '' for an absent operand) and its decoded operands.
NoText == [n \in 0..(UA_MAXOP - 1) |-> <<>>]
NoOps == [n \in 0..(UA_MAXOP - 1) |-> [type |-> o_void, value |-> 0]]

Insn(mnem) == [mnem |-> mnem, call |-> FALSE, crefs |-> <<>>, drefs |-> <<>>,
               optext |-> NoText, ops |-> NoOps]

I_nop == Insn(<<"n", "o", "p">>)
I_retn == Insn(<<"r", "e", "t", "n">>)
\* push 70000h
I_push == [Insn(<<"p", "u", "s", "h">>) EXCEPT
             !.optext = [NoText EXCEPT ![0] = <<"7", "0", "0", "0", "0", "h">>],
             !.ops = [NoOps EXCEPT ![0] = [type |-> o_imm, value |-> 458752]]]
I_call(target) == [Insn(<<"c", "a", "l", "l">>) EXCEPT !.call = TRUE, !.crefs = <<target>>]
I_lea(dref) == [Insn(<<"l", "e", "a">>) EXCEPT !.drefs = <<dref>>]
\* call eax: a call instruction without code references
I_calli == [Insn(<<"c", "a", "l", "l">>) EXCEPT !.call = TRUE]

Slots == 1..NumFuncs
FuncEA(i) == 16 * i
StrEA(i) == 256 + i
PrevSlot(i) == IF i = 1 THEN NumFuncs ELSE i - 1

\* the long string a string-referencing function refers to
Marker == <<"m", "a", "r", "k", "e", "r", "b", "h", "b", "y">>
ShortText == <<"a", "b", "c">>

\* The shapes a function takes.  "leaf" is one block; "caller" is a block
\* that calls the function before it MaxCalls times, followed by two blocks
\* that are alike; "strfn" refers to its marker string in one block and
\* "strsplit" is the same code cut into two blocks.  "icaller" is "caller"
\* with indirect calls: the same mnemonics, no called name.
BodyKinds == {"leaf", "caller", "strfn", "strsplit"}
ExtKinds == {"leaf", "caller", "strfn"}

\* the basic blocks (idaapi.FlowChart) of the function in slot i
Body(kind, i) ==
  CASE kind = "leaf" -> << <<I_push, I_retn>> >>
    [] kind = "caller" ->
         << [k \in 1..MaxCalls |-> I_call(FuncEA(PrevSlot(i)))] \o <<I_retn>>,
            <<I_nop>>, <<I_nop>> >>
    [] kind = "icaller" ->
         << [k \in 1..MaxCalls |-> I_calli] \o <<I_retn>>, <<I_nop>>, <<I_nop>> >>
    [] kind = "strfn" -> << <<I_lea(StrEA(i)), I_retn>> >>
    [] kind = "strsplit" -> << <<I_lea(StrEA(i))>>, <<I_retn>> >>

IsStrKind(kind) == kind \in {"strfn", "strsplit"}

sub_ == <<"s", "u", "b", "_">>
\* the placeholder name of an unnamed function
DefaultName(ea) == sub_ \o HexStr(ea)

RECURSIVE StringsOf(_, _)
\* idautils.Strings() with the xrefs to each string, in address order: a short
\* string, a long string referenced from outside every function, and the
\* marker string of each string-referencing function
StringsOf(kinds, i) ==
  IF i > NumFuncs THEN <<>>
  ELSE (IF IsStrKind(kinds[i])
        THEN <<[ea |-> StrEA(i), value |-> Marker, xrefs |-> <<FuncEA(i)>>]>>
        ELSE <<>>) \o StringsOf(kinds, i + 1)

FixedStrings == <<[ea |-> 254, value |-> ShortText, xrefs |-> <<>>],
                  [ea |-> 255, value |-> Marker, xrefs |-> <<8>>]>>

\* A database: its functions in address order, their blocks, the name table
\* and the strings.
MakeIDB(kinds, names) ==
  [funcs |-> [i \in Slots |-> FuncEA(i)],
   body |-> [ea \in {FuncEA(i) : i \in Slots} |-> Body(kinds[ea \div 16], ea \div 16)],
   names |-> [ea \in {FuncEA(i) : i \in Slots} |-> names[ea \div 16]],
   strings |-> FixedStrings \o StringsOf(kinds, 1)]

FuncSize == 16
\* idaapi.get_func(addr).start_ea, or BADADDR when addr is in no function
get_func(idb, addr) ==
  IF \E i \in 1..Len(idb.funcs) : idb.funcs[i] <= addr /\ addr < idb.funcs[i] + FuncSize
  THEN (addr \div FuncSize) * FuncSize
  ELSE BADADDR

\* idc.get_name(ea): '' when ea carries no name
get_name(names, ea) == IF ea \in DOMAIN names THEN names[ea] ELSE <<>>

\* idc.get_name_ea_simple(name)
get_name_ea_simple(names, name) ==
  IF \E ea \in DOMAIN names : names[ea] = name
  THEN CHOOSE ea \in DOMAIN names : names[ea] = name
  ELSE BADADDR

\* idaapi.get_full_flags(value): non-zero for a defined address
get_full_flags(idb, value) ==
  IF get_func(idb, value) # BADADDR \/ \E i \in 1..Len(idb.strings) : idb.strings[i].ea = value
  THEN 1 ELSE 0

(* ------------------------- Rizzo.__init__ ----------------------------- *)
\* self.strings: string address -> RizzoStringDescriptor, in enumeration order
StringTable(idb) == [i \in 1..Len(idb.strings) |-> <<idb.strings[i].ea, idb.strings[i]>>]

(* ----------------------------- dicts ---------------------------------- *)
Keys(d) == {d[i][1] : i \in 1..Len(d)}
Has(d, k) == \E i \in 1..Len(d) : d[i][1] = k
Get(d, k) == d[CHOOSE i \in 1..Len(d) : d[i][1] = k][2]
\* d[k] = v
Put(d, k, v) == IF Has(d, k)
                THEN [i \in 1..Len(d) |-> IF d[i][1] = k THEN <<k, v>> ELSE d[i]]
                ELSE Append(d, <<k, v>>)
\* del d[k]
Del(d, k) == SelectSeq(d, LAMBDA e : e[1] # k)
\* the dict as a mapping, insertion order forgotten (dict equality)
AsMap(d) == [k \in Keys(d) |-> Get(d, k)]

(* --------------------------- Rizzo.block ------------------------------ *)
funcref == <<"f", "u", "n", "c", "r", "e", "f">>
dataref == <<"d", "a", "t", "a", "r", "e", "f">>

RECURSIVE CallLoop(_, _, _)
\* for cref in crefs (call instruction)
CallLoop(acc, crefs, names) ==
  IF crefs = <<>> THEN acc
  ELSE LET func_name == get_name(names, Head(crefs))
       IN IF func_name = <<>>
          THEN CallLoop(acc, Tail(crefs), names)
          ELSE CallLoop([acc EXCEPT !.functions = Append(@, func_name),
                                    !.fuzzy = Append(@, funcref)],
                        Tail(crefs), names)

RECURSIVE DrefLoop(_, _, _)
\* for dref in drefs
DrefLoop(acc, drefs, strings) ==
  IF drefs = <<>> THEN acc
  ELSE LET tok == IF Has(strings, Head(drefs)) THEN Get(strings, Head(drefs)).value
                  ELSE dataref
       IN DrefLoop([acc EXCEPT !.formal = Append(@, tok), !.fuzzy = Append(@, tok)],
                   Tail(drefs), strings)

\* idaapi.insn_t().ops: the operands of a newly constructed instruction, not
\* of the decoded one
FreshOps(insn) == NoOps

RECURSIVE OpLoop(_, _, _, _)
\* for n in range(0, len(idaapi.insn_t().ops))
OpLoop(acc, insn, n, idb) ==
  IF n >= UA_MAXOP THEN acc
  ELSE LET opnd_text == insn.optext[n]
           op == FreshOps(insn)[n]
           acc1 == [acc EXCEPT !.formal = Append(@, opnd_text)]
       IN IF op.type # o_imm \/ StartsWith(opnd_text, <<"-">>)
          THEN OpLoop(acc1, insn, n + 1, idb)
          ELSE IF op.value < FFFF
          THEN OpLoop(acc1, insn, n + 1, idb)
          ELSE IF get_full_flags(idb, op.value) # 0
          THEN OpLoop(acc1, insn, n + 1, idb)
          ELSE OpLoop([acc1 EXCEPT !.fuzzy = Append(@, DecStr(op.value)),
                                   !.immediates = Append(@, op.value)],
                      insn, n + 1, idb)

\* one pass of the while loop over the instructions of a block
InsnStep(acc, insn, idb, names) ==
  LET acc1 == [acc EXCEPT !.formal = Append(@, insn.mnem)]
  IN IF insn.call THEN CallLoop(acc1, insn.crefs, names)
     ELSE IF insn.drefs # <<>> THEN DrefLoop(acc1, insn.drefs, StringTable(idb))
     ELSE IF insn.crefs = <<>> THEN OpLoop(acc1, insn, 0, idb)
     ELSE acc1

RECURSIVE InsnLoop(_, _, _, _)
InsnLoop(acc, insns, idb, names) ==
  IF insns = <<>> THEN acc
  ELSE InsnLoop(InsnStep(acc, Head(insns), idb, names), Tail(insns), idb, names)

\* Rizzo.block: (formal hash, fuzzy hash, immediates, called names)
block(idb, names, seed, insns) ==
  LET acc == InsnLoop([formal |-> <<>>, fuzzy |-> <<>>, functions |-> <<>>,
                       immediates |-> <<>>], insns, idb, names)
  IN <<sighash(seed, Join(acc.formal)), sighash(seed, Join(acc.fuzzy)),
       acc.immediates, acc.functions>>

\* Rizzo.function: the list of block tuples of the function at ea
function(idb, names, seed, ea) ==
  [b \in 1..Len(idb.body[ea]) |-> block(idb, names, seed, idb.body[ea][b])]

(* -------------------------- Rizzo.generate ---------------------------- *)
\* RizzoSignatures()
RizzoSignatures ==
  [fuzzy |-> <<>>, formal |-> <<>>, strings |-> <<>>, functions |-> <<>>,
   immediates |-> <<>>,
   fuzzydups |-> {}, formaldups |-> {}, stringdups |-> {}, immediatedups |-> {}]

\* Dedup without the duplicate set: a removed key is inserted again
Dedup_NoPoison(map, dups, h, a) ==
  IF Has(map, h) THEN [map |-> Del(map, h), dups |-> dups \cup {h}]
  ELSE [map |-> Put(map, h, a), dups |-> dups]

\* Dedup that keeps the first owner of a key it sees again
Dedup_KeepFirst(map, dups, h, a) ==
  IF Has(map, h) THEN [map |-> map, dups |-> dups]
  ELSE [map |-> Put(map, h, a), dups |-> dups]

\* The rule shared by the four categories: a key that is present is removed
\* and remembered as a duplicate, a key not yet seen is inserted, a remembered
\* duplicate is ignored.
Dedup(map, dups, h, a) ==
  IF Has(map, h) THEN [map |-> Del(map, h), dups |-> dups \cup {h}]
  ELSE IF h \notin dups THEN [map |-> Put(map, h, a), dups |-> dups]
  ELSE [map |-> map, dups |-> dups]

\* the body of the loop over self.strings.items()
StringStep(sig, string, idb, seed) ==
  IF Len(string.value) < MinStrLen \/ Len(string.xrefs) # 1 THEN sig
  ELSE LET func == get_func(idb, string.xrefs[1])
       IN IF func = BADADDR THEN sig
          ELSE LET r == Dedup(sig.strings, sig.stringdups, sighash(seed, string.value), func)
               IN [sig EXCEPT !.strings = r.map, !.stringdups = r.dups]

RECURSIVE ImmediateLoop(_, _, _)
\* for immediate in immediates (of one block)
ImmediateLoop(sig, immediates, start_ea) ==
  IF immediates = <<>> THEN sig
  ELSE LET r == Dedup(sig.immediates, sig.immediatedups, Head(immediates), start_ea)
       IN ImmediateLoop([sig EXCEPT !.immediates = r.map, !.immediatedups = r.dups],
                        Tail(immediates), start_ea)

RECURSIVE BlockImmediates(_, _, _)
\* for (e, f, immediates, c) in blocks
BlockImmediates(sig, blocks, start_ea) ==
  IF blocks = <<>> THEN sig
  ELSE BlockImmediates(ImmediateLoop(sig, Head(blocks)[3], start_ea), Tail(blocks), start_ea)

\* the function-wide hashes: sighash of the joined str() of the block hashes
FormalOf(seed, blocks) == sighash(seed, Join([b \in 1..Len(blocks) |-> DecStr(blocks[b][1])]))
FuzzyOf(seed, blocks) == sighash(seed, Join([b \in 1..Len(blocks) |-> DecStr(blocks[b][2])]))

\* the body of the loop over idautils.Functions()
FunctionStep(sig, ea, idb, names, seed) ==
  LET start_ea == get_func(idb, ea)
  IN IF start_ea = BADADDR THEN sig
     ELSE LET blocks == function(idb, names, seed, start_ea)
              formal == FormalOf(seed, blocks)
              fuzzy == FuzzyOf(seed, blocks)
              s1 == [sig EXCEPT !.functions = Put(@, start_ea, <<get_name(names, start_ea), blocks>>)]
              rf == Dedup(s1.formal, s1.formaldups, formal, start_ea)
              s2 == [s1 EXCEPT !.formal = rf.map, !.formaldups = rf.dups]
              rz == Dedup(s2.fuzzy, s2.fuzzydups, fuzzy, start_ea)
              s3 == [s2 EXCEPT !.fuzzy = rz.map, !.fuzzydups = rz.dups]
          IN BlockImmediates(s3, blocks, start_ea)

\* the end of generate(): the duplicate sets are emptied
ClearDups(sig) == [sig EXCEPT !.fuzzydups = {}, !.formaldups = {}, !.stringdups = {},
                              !.immediatedups = {}]

RECURSIVE StringPass(_, _, _, _)
StringPass(sig, strings, idb, seed) ==
  IF strings = <<>> THEN sig
  ELSE StringPass(StringStep(sig, Head(strings)[2], idb, seed), Tail(strings), idb, seed)

RECURSIVE FunctionPass(_, _, _, _, _)
FunctionPass(sig, funcs, idb, names, seed) ==
  IF funcs = <<>> THEN sig
  ELSE FunctionPass(FunctionStep(sig, Head(funcs), idb, names, seed), Tail(funcs),
                    idb, names, seed)

\* generate() with the strings and the functions enumerated in address order
generate(idb, seed) ==
  ClearDups(FunctionPass(StringPass(RizzoSignatures, StringTable(idb), idb, seed),
                         idb.funcs, idb, idb.names, seed))

\* what a store holds once pickled and loaded again: the five maps
StoreMaps(sig) ==
  [fuzzy |-> AsMap(sig.fuzzy), formal |-> AsMap(sig.formal), strings |-> AsMap(sig.strings),
   functions |-> AsMap(sig.functions), immediates |-> AsMap(sig.immediates)]


(* ----------------------------- Rizzo.match ---------------------------- *)
\* RizzoFunctionDescriptor(signatures, functions, key)
RizzoFunctionDescriptor(sigmap, functions, key) ==
  [ea |-> Get(sigmap, key),
   name |-> Get(functions, Get(sigmap, key))[1],
   blocks |-> Get(functions, Get(sigmap, key))[2]]

RECURSIVE MatchLoop(_, _, _, _, _, _)
\* for (extsig, ext_func_ea) in extsigs.<category>.items(): the candidates are
\* keyed by descriptor objects, so every accepted pair is a new entry, in the
\* order the external map is iterated in
MatchLoop(acc, items, cursigs, curfuncs, extsigs, needblocks) ==
  IF items = <<>> THEN acc
  ELSE LET extsig == Head(items)[1]
       IN IF ~Has(cursigs, extsig)
          THEN MatchLoop(acc, Tail(items), cursigs, curfuncs, extsigs, needblocks)
          ELSE LET curfunc == RizzoFunctionDescriptor(cursigs, curfuncs, extsig)
                   newfunc == RizzoFunctionDescriptor(extsigs[1], extsigs[2], extsig)
               IN IF needblocks => Len(curfunc.blocks) = Len(newfunc.blocks)
                  THEN MatchLoop(Append(acc, <<curfunc, newfunc>>), Tail(items),
                                 cursigs, curfuncs, extsigs, needblocks)
                  ELSE MatchLoop(acc, Tail(items), cursigs, curfuncs, extsigs, needblocks)

\* no category compares the block counts
FuzzyNeedsBlocks_Never(cat) == FALSE

\* the candidates of one category; only fuzzy compares the block counts
FuzzyNeedsBlocks(cat) == cat = "fuzzy"
Candidates(cat, sigs, ext) ==
  MatchLoop(<<>>, ext[cat], sigs[cat], sigs.functions, <<ext[cat], ext.functions>>,
            FuzzyNeedsBlocks(cat))

\* the candidate sets returned in the order match() computes them in
ReturnOrder_AsComputed == <<"formal", "fuzzy", "strings", "immediates">>

\* the order the candidate sets are returned (and applied) in
ReturnOrder == <<"formal", "strings", "immediates", "fuzzy">>

\* match(): ((formal, False), (strings, False), (immediates, False), (fuzzy, True))
match(sigs, ext) ==
  [k \in 1..Len(ReturnOrder) |->
     [cat |-> ReturnOrder[k],
      match |-> Candidates(ReturnOrder[k], sigs, ext),
      fuzzy |-> ReturnOrder[k] = "fuzzy"]]

(* ---------------------------- Rizzo.rename ---------------------------- *)
Reserved == {<<"s", "u", "b">>, <<"l", "o", "c">>, <<"u", "n", "k">>,
             <<"d", "w", "o", "r", "d">>, <<"w", "o", "r", "d">>, <<"b", "y", "t", "e">>}

\* idc.set_name(ea, name, SN_CHECK): refused when another address has the name
set_name(names, ea, name) == \A a \in DOMAIN names \ {ea} : names[a] # name

\* the guard without the test of the proposed name's prefix
NameGuard_AnyName(curname, name) == StartsWith(curname, sub_)

\* the guard without the test of the current name
NameGuard_AnyTarget(curname, name) == SplitHead(name) \notin Reserved

\* the two conditions on the current and the proposed name
NameGuard(curname, name) == StartsWith(curname, sub_) /\ SplitHead(name) \notin Reserved

\* rename(ea, name): the name table, the library flags and the value returned
rename(nm, fl, ea, name) ==
  LET curname == get_name(nm, ea)
  IN IF /\ NameGuard(curname, name)
        /\ get_name_ea_simple(nm, name) = BADADDR
        /\ set_name(nm, ea, name)
     THEN [names |-> [nm EXCEPT ![ea] = name],
           flags |-> [fl EXCEPT ![ea] = TRUE],
           ret |-> 1]
     ELSE [names |-> nm, flags |-> fl, ret |-> 0]

(* ----------------------------- Rizzo.apply ---------------------------- *)
\* RizzoBlockDescriptor(block): a new object; having neither __eq__ nor
\* __hash__, it is a dict key and a set member by identity (id)
RizzoBlockDescriptor(blk, id) ==
  [id |-> id, formal |-> blk[1], fuzzy |-> blk[2], immediates |-> blk[3], functions |-> blk[4]]

\* the match without the test of the numbers of called names
BlockMatch_NoCallCount(self, nblock, fuzzy) ==
  /\ self.formal = nblock.formal
  /\ Len(self.immediates) = Len(nblock.immediates)

\* RizzoBlockDescriptor.match
BlockMatch(self, nblock, fuzzy) ==
  /\ self.formal = nblock.formal
  /\ Len(self.immediates) = Len(nblock.immediates)
  /\ Len(self.functions) = Len(nblock.functions)

\* cblock in bm / cblock in duplicates: membership of the object
SameObject(a, b) == a.id = b.id
InBm(bm, cblock) == \E i \in 1..Len(bm) : SameObject(bm[i][1], cblock)

\* The descriptors are constructed in loop order: one for the external block
\* of an outer pass, then one for the local block of each inner pass.
NblockId(i, ncur) == (i - 1) * (ncur + 1) + 1
CblockId(i, j, ncur) == NblockId(i, ncur) + j

RECURSIVE BlockLoop(_, _, _, _, _, _)
\* for nblock in newfunc.blocks: for cblock in curfunc.blocks: ...
\* st = [bm, duplicates]
BlockLoop(st, i, j, cblocks, nblocks, fuzzy) ==
  IF i > Len(nblocks) THEN st
  ELSE IF j > Len(cblocks) THEN BlockLoop(st, i + 1, 1, cblocks, nblocks, fuzzy)
  ELSE LET nblock == RizzoBlockDescriptor(nblocks[i], NblockId(i, Len(cblocks)))
           cblock == RizzoBlockDescriptor(cblocks[j], CblockId(i, j, Len(cblocks)))
       IN IF BlockMatch(cblock, nblock, fuzzy)
          THEN IF InBm(st.bm, cblock)
               THEN BlockLoop([st EXCEPT
                                 !.bm = SelectSeq(@, LAMBDA e : ~SameObject(e[1], cblock)),
                                 !.duplicates = @ \cup {cblock}],
                              i, j + 1, cblocks, nblocks, fuzzy)
               ELSE IF \A d \in st.duplicates : ~SameObject(d, cblock)
               THEN BlockLoop([st EXCEPT !.bm = Append(@, <<cblock, nblock>>)],
                              i, j + 1, cblocks, nblocks, fuzzy)
               ELSE BlockLoop(st, i, j + 1, cblocks, nblocks, fuzzy)
          ELSE BlockLoop(st, i, j + 1, cblocks, nblocks, fuzzy)

\* bm after the search for matching code blocks inside a matched pair
BlockPairs(curfunc, newfunc, fuzzy) ==
  BlockLoop([bm |-> <<>>, duplicates |-> {}], 1, 1, curfunc.blocks, newfunc.blocks, fuzzy).bm

\* rename[name].append(ea), the list created when the name is new
AddCandidate(ren, name, ea) ==
  IF Has(ren, name) THEN Put(ren, name, Append(Get(ren, name), ea))
  ELSE Put(ren, name, <<ea>>)

RECURSIVE CallRefLoop_LocalName(_, _, _, _, _)
\* the call references proposed under the local block's called name
CallRefLoop_LocalName(ren, cblock, nblock, n, nm) ==
  IF n >= Len(cblock.functions) THEN ren
  ELSE LET ea == get_name_ea_simple(nm, cblock.functions[n + 1])
       IN IF ea # BADADDR
          THEN CallRefLoop_LocalName(AddCandidate(ren, cblock.functions[n + 1], ea),
                                     cblock, nblock, n + 1, nm)
          ELSE CallRefLoop_LocalName(ren, cblock, nblock, n + 1, nm)

RECURSIVE CallRefLoop(_, _, _, _, _)
\* for n in range(0, len(cblock.functions))
CallRefLoop(ren, cblock, nblock, n, names) ==
  IF n >= Len(cblock.functions) THEN ren
  ELSE LET ea == get_name_ea_simple(names, cblock.functions[n + 1])
       IN IF ea # BADADDR
          THEN CallRefLoop(AddCandidate(ren, nblock.functions[n + 1], ea),
                           cblock, nblock, n + 1, names)
          ELSE CallRefLoop(ren, cblock, nblock, n + 1, names)

\* nblock.functions[n] is read for a position the external list lacks:
\* IndexError leaves apply()
RaisesIndexError(bm, names) ==
  \E k \in 1..Len(bm) :
    \E n \in 1..Len(bm[k][1].functions) :
      /\ get_name_ea_simple(names, bm[k][1].functions[n]) # BADADDR
      /\ n > Len(bm[k][2].functions)

RECURSIVE Propagate(_, _, _)
\* for (cblock, nblock) in bm.items()
Propagate(ren, bm, names) ==
  IF bm = <<>> THEN ren
  ELSE Propagate(CallRefLoop(ren, Head(bm)[1], Head(bm)[2], 0, names), Tail(bm), names)

\* the candidates one matched pair adds: its own address under the external
\* name, then the call references of its paired blocks
Gather(ren, curfunc, newfunc, bm, names) ==
  LET r0 == IF Has(ren, newfunc.name) THEN ren ELSE Put(ren, newfunc.name, <<>>)
      r1 == Put(r0, newfunc.name, Append(Get(r0, newfunc.name), curfunc.ea))
  IN Propagate(r1, bm, names)

Occurrences(c, x) == Cardinality({i \in 1..Len(c) : c[i] = x})
FirstAt(c, x) == CHOOSE i \in 1..Len(c) : c[i] = x /\ \A j \in 1..(i - 1) : c[j] # x

\* collections.Counter(candidates).most_common(1)[0][0]: the most frequent
\* candidate, the first seen among equally frequent ones
MostCommon(c) ==
  CHOOSE x \in Range(c) :
    \A y \in Range(c) :
      \/ Occurrences(c, x) > Occurrences(c, y)
      \/ Occurrences(c, x) = Occurrences(c, y) /\ FirstAt(c, x) <= FirstAt(c, y)

(* ------------------------------ state --------------------------------- *)
VARIABLES
  binary,      \* the database under analysis: the body kind and name of each function
  seed,        \* the hash key of the running interpreter process
  signatures,  \* self.signatures, the store generate() builds
  pendS,       \* generate(): indexes of the strings not yet visited
  pendF,       \* generate(): indexes of the functions not yet visited
  pc,          \* where the run is
  subs,        \* generate(): the <<category, key>> handed to the dedup rule so far
  run,         \* 1 for the first run of generate(), 2 for the second
  prev,        \* the maps of the store of the first run
  names,       \* the live name table of the database: address -> name
  flags,       \* address -> whether FUNC_LIB is set
  extsigs,     \* the store loaded from the signature file
  matches,     \* apply(): what match() returned
  passIdx,     \* apply(): the candidate set being applied
  pairIdx,     \* apply(): the matched pair being visited
  renameDict,  \* apply(): rename, proposed name -> candidate addresses
  ridx,        \* apply(): position in rename.items()
  bm,          \* apply(): the block pairing of the pair last visited
  count,       \* apply(): renames done
  log          \* apply(): the calls of rename() so far

genvars == <<pendS, pendF, subs, run, prev>>
appvars == <<names, flags, extsigs, matches, passIdx, pairIdx, renameDict, ridx, bm, count, log>>
vars == <<binary, seed, signatures, pc, genvars, appvars>>

\* the hash keys a process can draw
Seeds == {1, 2}
IDB(b) == MakeIDB(b.kinds, b.names)
DefaultNames == [i \in Slots |-> DefaultName(FuncEA(i))]

(* ------------------- generate(), one loop pass a step ----------------- *)
\* the keys one pass of the string loop hands to the dedup rule
StringSubs(string, idb, sd) ==
  IF Len(string.value) < MinStrLen \/ Len(string.xrefs) # 1 THEN <<>>
  ELSE IF get_func(idb, string.xrefs[1]) = BADADDR THEN <<>>
  ELSE << <<"strings", sighash(sd, string.value)>> >>

\* the keys one pass of the function loop hands to the dedup rule
FunctionSubs(ea, idb, nm, sd) ==
  LET blocks == function(idb, nm, sd, ea)
      imms == Join([b \in 1..Len(blocks) |-> blocks[b][3]])
  IN << <<"formal", FormalOf(sd, blocks)>>, <<"fuzzy", FuzzyOf(sd, blocks)>> >>
     \o [k \in 1..Len(imms) |-> <<"immediates", imms[k]>>]

InitGen ==
  /\ binary \in [kinds : [Slots -> BodyKinds], names : {DefaultNames}]
  /\ seed \in Seeds
  /\ signatures = RizzoSignatures
  /\ pendS = 1..Len(IDB(binary).strings)
  /\ pendF = Slots
  /\ pc = "generate"
  /\ subs = <<>>
  /\ run = 1
  /\ prev = StoreMaps(RizzoSignatures)
  /\ names = IDB(binary).names
  /\ flags = [ea \in DOMAIN names |-> FALSE]
  /\ extsigs = RizzoSignatures
  /\ matches = <<>>
  /\ passIdx = 0
  /\ pairIdx = 0
  /\ renameDict = <<>>
  /\ ridx = 0
  /\ bm = <<>>
  /\ count = 0
  /\ log = <<>>

GenString(i) ==
  /\ pc = "generate"
  /\ i \in pendS
  /\ signatures' = StringStep(signatures, IDB(binary).strings[i], IDB(binary), seed)
  /\ subs' = subs \o StringSubs(IDB(binary).strings[i], IDB(binary), seed)
  /\ pendS' = pendS \ {i}
  /\ UNCHANGED <<binary, seed, pendF, pc, run, prev, appvars>>

GenFunction(i) ==
  /\ pc = "generate"
  /\ pendS = {}
  /\ i \in pendF
  /\ signatures' = FunctionStep(signatures, IDB(binary).funcs[i], IDB(binary), names, seed)
  /\ subs' = subs \o FunctionSubs(IDB(binary).funcs[i], IDB(binary), names, seed)
  /\ pendF' = pendF \ {i}
  /\ UNCHANGED <<binary, seed, pendS, pc, run, prev, appvars>>

GenReturn ==
  /\ pc = "generate"
  /\ pendS = {}
  /\ pendF = {}
  /\ signatures' = ClearDups(signatures)
  /\ pc' = "generated"
  /\ UNCHANGED <<binary, seed, pendS, pendF, subs, run, prev, appvars>>

\* generate() runs again on the unmodified database, in this interpreter
\* process or in a new one
GenAgain ==
  /\ pc = "generated"
  /\ run = 1
  /\ prev' = StoreMaps(signatures)
  /\ run' = 2
  /\ seed' \in Seeds
  /\ signatures' = RizzoSignatures
  /\ pendS' = 1..Len(IDB(binary).strings)
  /\ pendF' = Slots
  /\ subs' = <<>>
  /\ pc' = "generate"
  /\ UNCHANGED <<binary, appvars>>

NextGen ==
  \/ \E i \in 1..(NumFuncs + 2) : GenString(i)
  \/ \E i \in Slots : GenFunction(i)
  \/ GenReturn
  \/ GenAgain

SpecGen == InitGen /\ [][NextGen]_vars

(* ---------------- RizzoApply: Rizzo(), load(), apply() ----------------- *)
foo == <<"f", "o", "o">>
bar == <<"b", "a", "r">>
baz == <<"b", "a", "z">>
qux == <<"q", "u", "x">>
GivenNames == <<foo, bar, baz, qux>>
\* the names of the functions of the database the signature file was built
\* from; its last function may be unnamed
ExtNames == [i \in Slots |-> GivenNames[i]]
ExtNameTables == {ExtNames, [ExtNames EXCEPT ![NumFuncs] = DefaultName(FuncEA(NumFuncs))]}
\* the names of the database the signatures are applied to: placeholders,
\* except that its first function may already be named
LocalNameTables == {DefaultNames, [DefaultNames EXCEPT ![1] = foo]}

\* the databases apply() can run on, each with the store Rizzo() generates
\* for it in a process with hash key sd
LocalRuns ==
  {[binary |-> b, seed |-> sd, signatures |-> generate(IDB(b), sd)] :
     b \in [kinds : [Slots -> BodyKinds], names : LocalNameTables], sd \in Seeds}

\* the stores a signature file can hold: RizzoBuild of some database, by a
\* process with hash key sd
ExtStores ==
  {[seed |-> sd, signatures |-> generate(MakeIDB(k, n), sd)] :
     k \in [Slots -> ExtKinds], n \in ExtNameTables, sd \in Seeds}

\* apply() is entered: nothing matched, nothing renamed
EnterApply ==
  /\ pendS = {}
  /\ pendF = {}
  /\ pc = "apply"
  /\ subs = <<>>
  /\ run = 1
  /\ prev = StoreMaps(RizzoSignatures)
  /\ names = IDB(binary).names
  /\ flags = [ea \in DOMAIN names |-> FALSE]
  /\ matches = <<>>
  /\ passIdx = 0
  /\ pairIdx = 0
  /\ renameDict = <<>>
  /\ ridx = 0
  /\ bm = <<>>
  /\ count = 0
  /\ log = <<>>

\* The state when apply() is entered: Rizzo() has generated the store of the
\* open database and load() has returned the store of the signature file,
\* built by a process with a hash key of its own.
Init ==
  /\ \E l \in LocalRuns, e \in ExtStores :
       /\ binary = l.binary
       /\ seed = l.seed
       /\ signatures = l.signatures
       /\ extsigs = e.signatures
  /\ EnterApply

\* the stores built from databases whose callers may call indirectly
AnyExtKinds == {"leaf", "caller", "icaller"}
AnyExtStores ==
  {[seed |-> sd, signatures |-> generate(MakeIDB(k, n), sd)] :
     k \in [Slots -> AnyExtKinds], n \in ExtNameTables, sd \in Seeds}

\* apply() is entered with the store of any such signature file
InitAny ==
  /\ \E l \in LocalRuns, e \in AnyExtStores :
       /\ binary = l.binary
       /\ seed = l.seed
       /\ signatures = l.signatures
       /\ extsigs = e.signatures
  /\ EnterApply

\* for (match, fuzzy) in self.match(extsigs): match() is evaluated
ApplyMatch ==
  /\ pc = "apply"
  /\ matches' = match(signatures, extsigs)
  /\ passIdx' = 1
  /\ pairIdx' = 1
  /\ renameDict' = <<>>
  /\ pc' = "pass"
  /\ UNCHANGED <<binary, seed, signatures, genvars, names, flags, extsigs, ridx, bm, count, log>>

\* one pass of "for (curfunc, newfunc) in match.items()" up to the renaming
\* loop: the pair's own candidate, the block pairing, the call references
ApplyPair ==
  /\ pc = "pass"
  /\ pairIdx <= Len(matches[passIdx].match)
  /\ LET curfunc == matches[passIdx].match[pairIdx][1]
         newfunc == matches[passIdx].match[pairIdx][2]
         pairs == BlockPairs(curfunc, newfunc, matches[passIdx].fuzzy)
     IN /\ bm' = pairs
        /\ IF RaisesIndexError(pairs, names)
           THEN pc' = "IndexError" /\ UNCHANGED <<renameDict, ridx>>
           ELSE /\ renameDict' = Gather(renameDict, curfunc, newfunc, pairs, names)
                /\ ridx' = 1
                /\ pc' = "rename"
  /\ UNCHANGED <<binary, seed, signatures, genvars, names, flags, extsigs, matches,
                 passIdx, pairIdx, count, log>>

\* one pass of "for (name, candidates) in rename.items()", which runs inside
\* the loop over the matched pairs
ApplyRename ==
  /\ pc = "rename"
  /\ ridx <= Len(renameDict)
  /\ LET name == renameDict[ridx][1]
         candidates == renameDict[ridx][2]
         winner == MostCommon(candidates)
         r == rename(names, flags, winner, name)
     IN IF candidates # <<>>
        THEN /\ names' = r.names
             /\ flags' = r.flags
             /\ count' = count + r.ret
             /\ log' = Append(log, [pass |-> passIdx, cat |-> matches[passIdx].cat,
                                    fuzzy |-> matches[passIdx].fuzzy, name |-> name,
                                    ea |-> winner, curname |-> get_name(names, winner),
                                    free |-> get_name_ea_simple(names, name) = BADADDR,
                                    ret |-> r.ret])
        ELSE UNCHANGED <<names, flags, count, log>>
  /\ IF ridx < Len(renameDict)
     THEN ridx' = ridx + 1 /\ UNCHANGED <<pc, pairIdx>>
     ELSE ridx' = 0 /\ pc' = "pass" /\ pairIdx' = pairIdx + 1
  /\ UNCHANGED <<binary, seed, signatures, genvars, extsigs, matches, passIdx, renameDict, bm>>

\* the pairs of a candidate set are exhausted: the next set, with rename = {}
ApplyNextPass ==
  /\ pc = "pass"
  /\ pairIdx > Len(matches[passIdx].match)
  /\ passIdx < Len(matches)
  /\ passIdx' = passIdx + 1
  /\ pairIdx' = 1
  /\ renameDict' = <<>>
  /\ UNCHANGED <<binary, seed, signatures, genvars, names, flags, extsigs, matches,
                 ridx, bm, count, log, pc>>

\* apply() returns
ApplyReturn ==
  /\ pc = "pass"
  /\ pairIdx > Len(matches[passIdx].match)
  /\ passIdx = Len(matches)
  /\ pc' = "applied"
  /\ UNCHANGED <<binary, seed, signatures, genvars, names, flags, extsigs, matches,
                 passIdx, pairIdx, renameDict, ridx, bm, count, log>>

Next ==
  \/ ApplyMatch
  \/ ApplyPair
  \/ ApplyRename
  \/ ApplyNextPass
  \/ ApplyReturn

Spec == Init /\ [][Next]_vars
SpecAny == InitAny /\ [][Next]_vars

(* ------------------------- claims on generate() ----------------------- *)
Categories == {"formal", "fuzzy", "strings", "immediates"}
Submitted(cat, h) == Cardinality({i \in 1..Len(subs) : subs[i] = <<cat, h>>})
SubmittedKeys(cat) == {subs[i][2] : i \in {j \in 1..Len(subs) : subs[j][1] = cat}}

\* C1: when generate() has finished, a key is in a category map exactly when
\* it was handed to the dedup rule exactly once during the pass; a key handed
\* in two, three or more times is absent.
C1_KeyIffSubmittedOnce ==
  pc = "generated" =>
    \A cat \in Categories :
      \A h \in SubmittedKeys(cat) \cup Keys(signatures[cat]) :
        Has(signatures[cat], h) <=> Submitted(cat, h) = 1

\* a finished pass in which one string hash came from three strings and is
\* absent, while the formal hash of a function came once and is present
C1_Witness ==
  /\ pc = "generated"
  /\ \E h \in SubmittedKeys("strings") :
       Submitted("strings", h) >= 3 /\ ~Has(signatures.strings, h)
  /\ \E h \in SubmittedKeys("formal") :
       Submitted("formal", h) = 1 /\ Has(signatures.formal, h)

\* C7: the maps of the finished store are those of the pass in address order,
\* whatever order the strings and the functions were visited in.
C7_OrderIndependent ==
  pc = "generated" => StoreMaps(signatures) = StoreMaps(generate(IDB(binary), seed))

\* a finished pass that visited the functions in another order than address
\* order (its functions dict is in another order) and that met a duplicate
C7_Witness ==
  /\ pc = "generated"
  /\ signatures.functions # generate(IDB(binary), seed).functions
  /\ \E h \in SubmittedKeys("fuzzy") : Submitted("fuzzy", h) >= 2
  /\ signatures.formal # <<>>

\* C10: a second run of generate() on the unmodified database ends with the
\* maps of the first run, in the same interpreter process or in another.
C10_SameStoreEveryRun ==
  (run = 2 /\ pc = "generated") => StoreMaps(signatures) = prev

(* --------------------- claims on match() and apply() ------------------ *)
\* the matched pair being visited, or visited last
CurPair == matches[passIdx].match[pairIdx]
LocalBlock(j) == RizzoBlockDescriptor(CurPair[1].blocks[j], 0)
ExtBlock(i) == RizzoBlockDescriptor(CurPair[2].blocks[i], 0)
\* the local blocks an external block matches, the external blocks a local one matches
LocalMatchesOf(nblock) ==
  {j \in 1..Len(CurPair[1].blocks) : BlockMatch(LocalBlock(j), nblock, matches[passIdx].fuzzy)}
ExtMatchesOf(cblock) ==
  {i \in 1..Len(CurPair[2].blocks) : BlockMatch(cblock, ExtBlock(i), matches[passIdx].fuzzy)}

\* C2: every pairing in the block-pairing map of a matched pair is
\* unambiguous: its external block matches no other local block and its local
\* block is matched by no other external block.
C2_OnlyUnambiguousPairings ==
  pc = "rename" =>
    \A k \in 1..Len(bm) :
      /\ Cardinality(LocalMatchesOf(bm[k][2])) = 1
      /\ Cardinality(ExtMatchesOf(bm[k][1])) = 1

PassDone == pc = "pass" /\ pairIdx > Len(matches[passIdx].match)
PassLog == {k \in 1..Len(log) : log[k].pass = passIdx}

\* C3: when a pass is over, every rename of the pass was attempted on the
\* address that is the most frequent among all the candidates the pass
\* gathered for that name.
C3_OnlyWholePassWinnerAttempted ==
  PassDone =>
    \A k \in PassLog : log[k].ea = MostCommon(Get(renameDict, log[k].name))

\* an auto-generated placeholder name: a reserved prefix followed by '_'
\* (rename() itself accepts the prefix sub_ only: NameGuard)
AutoName(n) == \E q \in Reserved : StartsWith(n, q \o <<"_">>)
Taken(nm, name) == \E a \in DOMAIN nm : nm[a] = name

\* C4: a call of rename(ea, name) changes a name, sets a library flag or
\* counts 1 only if the current name of ea is a placeholder, the prefix of
\* name is not reserved and no address carries name; in every other case the
\* names, the flags and the count are as before.
C4_RenameOnlyUnderGuard ==
  [][pc = "rename" =>
       LET name == renameDict[ridx][1]
           ea == MostCommon(renameDict[ridx][2])
           ok == /\ AutoName(names[ea])
                 /\ SplitHead(name) \notin Reserved
                 /\ ~Taken(names, name)
       IN IF ok
          THEN \A a \in DOMAIN names : a # ea => names'[a] = names[a] /\ flags'[a] = flags[a]
          ELSE names' = names /\ flags' = flags /\ count' = count /\ log'[Len(log')].ret = 0
    ]_vars

\* rename() has been called and has refused once for each reason, and has
\* renamed once
C4_Witness ==
  /\ \E k \in 1..Len(log) : log[k].ret = 1 /\ names[log[k].ea] = log[k].name
  /\ \E k \in 1..Len(log) : log[k].ret = 0 /\ ~AutoName(log[k].curname)
  /\ \E k \in 1..Len(log) :
       log[k].ret = 0 /\ AutoName(log[k].curname) /\ SplitHead(log[k].name) \in Reserved
  /\ \E k \in 1..Len(log) :
       /\ log[k].ret = 0 /\ AutoName(log[k].curname)
       /\ SplitHead(log[k].name) \notin Reserved /\ ~log[k].free

\* C5: an address is renamed at most once during apply(), and the name a
\* successful rename gave it is the name it carries ever after.
C5_RenamedAtMostOnce ==
  /\ \A ea \in DOMAIN names :
       Cardinality({k \in 1..Len(log) : log[k].ea = ea /\ log[k].ret = 1}) <= 1
  /\ \A k \in 1..Len(log) : log[k].ret = 1 => names[log[k].ea] = log[k].name

\* an address renamed by one pass was proposed another name later in that
\* pass and again in a later pass, and has kept its name
C5_Witness ==
  \E k, m, n \in 1..Len(log) :
    /\ k < m /\ m < n
    /\ log[k].ret = 1
    /\ log[m].ea = log[k].ea /\ log[m].name # log[k].name /\ log[m].pass = log[k].pass
    /\ log[n].ea = log[k].ea /\ log[n].pass > log[k].pass
    /\ names[log[k].ea] = log[k].name

Rank(cat) == CASE cat = "formal" -> 1 [] cat = "strings" -> 2
               [] cat = "immediates" -> 3 [] cat = "fuzzy" -> 4

\* C6: the candidate sets are applied in the order formal, strings,
\* immediates, fuzzy: a rename attempt of a category comes after every attempt
\* of the categories before it, and only the fuzzy set is flagged fuzzy.
C6_FixedConfidenceOrder ==
  /\ matches # <<>> =>
       /\ Len(matches) = 4
       /\ \A k \in 1..4 : Rank(matches[k].cat) = k
       /\ \A k \in 1..4 : matches[k].fuzzy <=> matches[k].cat = "fuzzy"
       /\ \A k \in 1..4 : matches[k].match = Candidates(matches[k].cat, signatures, extsigs)
  /\ \A k, m \in 1..Len(log) : k < m => Rank(log[k].cat) <= Rank(log[m].cat)
  /\ \A k \in 1..Len(log) : log[k].fuzzy <=> log[k].cat = "fuzzy"

\* apply() has returned after rename attempts of the formal, the strings and
\* the fuzzy set, in that order
C6_Witness ==
  /\ pc = "applied"
  /\ \E k, m, n \in 1..Len(log) :
       /\ k < m /\ m < n
       /\ log[k].cat = "formal" /\ log[m].cat = "strings" /\ log[n].cat = "fuzzy"
       /\ log[n].fuzzy

\* the pairs <<local address, external address>> of a candidate set
PairsOf(c) == {<<c[k][1].ea, c[k][2].ea>> : k \in 1..Len(c)}
NumBlocks(sig, ea) == Len(Get(sig.functions, ea)[2])
SharedKeys(cat) == Keys(signatures[cat]) \cap Keys(extsigs[cat])
SharedPairs(cat) ==
  {<<Get(signatures[cat], h), Get(extsigs[cat], h)>> : h \in SharedKeys(cat)}

\* C8: the fuzzy candidates are the pairs that share a fuzzy hash and have
\* the same number of blocks; the formal, strings and immediates candidates
\* are the pairs that share the hash.
C8_FuzzyNeedsEqualBlockCounts ==
  matches # <<>> =>
    \A k \in 1..Len(matches) :
      IF matches[k].cat = "fuzzy"
      THEN PairsOf(matches[k].match) =
             {q \in SharedPairs("fuzzy") :
                NumBlocks(signatures, q[1]) = NumBlocks(extsigs, q[2])}
      ELSE PairsOf(matches[k].match) = SharedPairs(matches[k].cat)

\* match() has run on two stores that share a fuzzy hash of functions with
\* differing block counts, and on another fuzzy hash that gave a candidate
C8_Witness ==
  /\ matches # <<>>
  /\ \E q \in SharedPairs("fuzzy") : NumBlocks(signatures, q[1]) # NumBlocks(extsigs, q[2])
  /\ \E k \in 1..Len(matches) : matches[k].cat = "fuzzy" /\ matches[k].match # <<>>

\* the block pairs of the visited function pair that match each other and
\* nothing else
OneToOne ==
  {q \in (1..Len(CurPair[1].blocks)) \X (1..Len(CurPair[2].blocks)) :
     /\ LocalMatchesOf(ExtBlock(q[2])) = {q[1]}
     /\ ExtMatchesOf(LocalBlock(q[1])) = {q[2]}}
SoleCandidate(e, a) == Range(e[2]) = {a}
FirstAttempt(name, a) ==
  CHOOSE k \in PassLog : log[k].name = name /\ log[k].ea = a
                         /\ \A m \in PassLog : log[m].name = name => k <= m

\* C9: once a matched pair is visited, every called name of a 1:1 paired
\* local block that resolves to an address has that address among the
\* candidates of the external block's called name at the same position; and
\* when a pass is over, an address that was the only candidate of a name, had
\* a placeholder name and was proposed a free name without a reserved prefix
\* carries that name.
C9_CallReferencePropagation ==
  /\ (pc = "rename" /\ ridx = 1) =>
       \A q \in OneToOne :
         \A n \in 1..Len(LocalBlock(q[1]).functions) :
           LET ea == get_name_ea_simple(names, LocalBlock(q[1]).functions[n])
               ext == ExtBlock(q[2]).functions[n]
           IN ea # BADADDR => Has(renameDict, ext) /\ ea \in Range(Get(renameDict, ext))
  /\ PassDone =>
       \A i \in 1..Len(renameDict) :
         \A a \in DOMAIN names :
           SoleCandidate(renameDict[i], a) =>
             /\ \E k \in PassLog : log[k].name = renameDict[i][1] /\ log[k].ea = a
             /\ LET k == FirstAttempt(renameDict[i][1], a)
                IN (/\ StartsWith(log[k].curname, sub_)
                    /\ SplitHead(log[k].name) \notin Reserved
                    /\ log[k].free) => names[a] = renameDict[i][1]

\* a pass is over in which a function that is in no candidate set of match()
\* was given the name of an external callee through a 1:1 paired block
C9_Witness ==
  /\ PassDone
  /\ \E a \in DOMAIN names :
       /\ \A k \in 1..Len(matches) : \A i \in 1..Len(matches[k].match) :
            matches[k].match[i][1].ea # a
       /\ StartsWith(IDB(binary).names[a], sub_)
       /\ \E i \in 1..Len(renameDict) :
            SoleCandidate(renameDict[i], a) /\ names[a] = renameDict[i][1]

(* ------------------------- claims on block() -------------------------- *)
RECURSIVE DecodedImmediates(_, _, _)
\* the immediate operands, from operand n on, of the decoded instruction
\* whose text does not start with '-', whose value is above 0xFFFF and whose
\* value is no flagged address
DecodedImmediates(insn, n, idb) ==
  IF n >= UA_MAXOP THEN <<>>
  ELSE LET op == insn.ops[n]
           rest == DecodedImmediates(insn, n + 1, idb)
       IN IF /\ op.type = o_imm
             /\ ~StartsWith(insn.optext[n], <<"-">>)
             /\ op.value > FFFF
             /\ get_full_flags(idb, op.value) = 0
          THEN <<op.value>> \o rest
          ELSE rest

RECURSIVE BlockDecodedImmediates(_, _)
\* the same over the instructions of a block that have no data and no code
\* references
BlockDecodedImmediates(insns, idb) ==
  IF insns = <<>> THEN <<>>
  ELSE (IF ~Head(insns).call /\ Head(insns).drefs = <<>> /\ Head(insns).crefs = <<>>
        THEN DecodedImmediates(Head(insns), 0, idb)
        ELSE <<>>) \o BlockDecodedImmediates(Tail(insns), idb)

\* C11: the immediates of every block that generate() has stored are the
\* immediate operands of the block's reference-free decoded instructions whose
\* text is not negative, whose value is strictly above 0xFFFF and whose value
\* is no flagged address, and no others.
C11_ImmediateRecordedIff ==
  \A i \in 1..Len(signatures.functions) :
    LET ea == signatures.functions[i][1]
        blocks == signatures.functions[i][2][2]
    IN \A b \in 1..Len(blocks) :
         blocks[b][3] = BlockDecodedImmediates(IDB(binary).body[ea][b], IDB(binary))

(* -------------------- claims on the block pairing --------------------- *)
\* C12: every pairing of the block-pairing map has called-name lists of the
\* same length on its local and its external side, and apply() never leaves
\* with an IndexError from reading the external block's n-th called name.
C12_CalledNameListsAlign ==
  /\ pc # "IndexError"
  /\ \A k \in 1..Len(bm) : Len(bm[k][2].functions) = Len(bm[k][1].functions)

\* a pair has been visited whose paired blocks call functions, and the
\* external block's first called name has received a candidate
C12_Witness ==
  /\ pc = "rename"
  /\ \E k \in 1..Len(bm) :
       /\ Len(bm[k][1].functions) >= 1
       /\ Has(renameDict, bm[k][2].functions[1])
       /\ get_name_ea_simple(names, bm[k][1].functions[1])
            \in Range(Get(renameDict, bm[k][2].functions[1]))

====
